---- MODULE Spec2Model ----
(***************************************************************************)
(* Model of crates/rpc/src/debug.rs: DebugApiServerImpl, the bridge from   *)
(* the JSON-RPC `debug` namespace to the UoPool and Bundler gRPC services. *)
(*                                                                         *)
(* Every handler is an async fn with one suspension point, the await of    *)
(* the outbound gRPC call.  A handler is therefore two steps: the step     *)
(* that clones the client, builds the request and sends it (named after    *)
(* the handler), and the step that resumes with the reply and maps it to   *)
(* the JSON-RPC outcome (named <handler>_resume).  Between the two, the    *)
(* backend collaborator answers the request.                               *)
(***************************************************************************)
EXTENDS Integers, Sequences, FiniteSets, TLC

\* ------------------------------------------------------------------ bounds
\* Longest list a backend returns, or a caller passes, when one call runs.
MaxLen == 3
\* Longest list a backend returns, or a caller passes, when two calls run
\* concurrently.
ConcLen == 1

\* The inbound calls: two, so that any two operations can run concurrently.
CallIds == {1, 2}

\* ------------------------------------------------------- program constants
\* jsonrpsee::types::error::INTERNAL_ERROR_CODE, the JSON-RPC 2.0 code of
\* an internal error.
INTERNAL_ERROR_CODE == -32603
\* silius_primitives::bundler::DEFAULT_BUNDLE_INTERVAL (seconds); the
\* constant is defined in the primitives crate, the handler only names it.
DEFAULT_BUNDLE_INTERVAL == 10
\* silius_grpc::SetReputationResult::SetReputation as i32, the one variant
\* the handler names.
SetReputation == 0

\* ResponseSuccess::Ok, the success sentinel of the inbound protocol.
ResponseSuccess == "ok"

\* Option<T>: None is the empty sequence, Some(x) the one-element sequence.
None == <<>>
Some(x) == <<x>>

\* RpcResult<T>
Ok(v) == <<"Ok", v>>
Err(e) == <<"Err", e>>

\* ----------------------------------------------------------- conversions
\* ethers Address / H256 values are numbers; on the gRPC wire they are
\* fixed-width big-endian byte arrays (two bytes are enough for the model).
H160_from(addr) == <<addr \div 256, addr % 256>>
Address_from(h) == h[1] * 256 + h[2]
H256_from(h) == h[1] * 256 + h[2]

\* silius_grpc::UserOperation -> silius_primitives::UserOperation
UserOperation_from(uo) == [sender |-> Address_from(uo.sender), nonce |-> uo.nonce]

\* silius_grpc::ReputationEntry <-> silius_primitives::ReputationEntry
ReputationEntry_from(re) ==
    [address |-> Address_from(re.addr), uo_seen |-> re.uo_seen,
     uo_included |-> re.uo_included, status |-> re.stat]
GrpcReputationEntry_from(re) ==
    [addr |-> H160_from(re.address), uo_seen |-> re.uo_seen,
     uo_included |-> re.uo_included, stat |-> re.status]

\* silius_grpc::StakeInfo -> silius_primitives::reputation::StakeInfo
StakeInfo_from(info) ==
    [address |-> Address_from(info.addr), stake |-> info.stake,
     unstake_delay |-> info.unstake_delay]

\* BundlerMode -> GrpcMode -> i32
GrpcMode_from(mode) == IF mode = "Auto" THEN 0 ELSE 1

\* JsonRpcError::from(tonic::Status): an internal error that carries the
\* status message.
JsonRpcError_from(s) ==
    [code |-> INTERNAL_ERROR_CODE, message |-> s.message, data |-> None]

\* ------------------------------------------------------------ value sets
\* Sequences over S of length at most n.
SeqUpTo(S, n) == UNION {[1..k -> S] : k \in 0..n}

Addresses == {1, 258}
Nonces == {1, 3, 5}
Modes == {"Auto", "Manual"}

GrpcUserOperations == [sender : {H160_from(a) : a \in Addresses}, nonce : Nonces]
ReputationEntries ==
    [address : Addresses, uo_seen : {0, 7}, uo_included : {0}, status : {0}]
GrpcReputationEntries == {GrpcReputationEntry_from(re) : re \in ReputationEntries}
GrpcStakeInfos ==
    [addr : {H160_from(1)}, stake : {0, 9}, unstake_delay : {0}]
\* Bundle hashes on the wire; the all-zero hash is a legal payload.
GrpcHashes == {<<0, 0>>, <<1, 2>>}
\* SetReputationResult codes: the designated one and two others.
ResultCodes == {SetReputation, 1, 99}
\* tonic::Status values of a failed call.
Statuses ==
    {[code |-> 14, message |-> "unavailable"], [code |-> 5, message |-> "not found"]}

\* A decoded gRPC response message; a field a response type does not have
\* holds its protobuf default.  tx is SendBundleNowResponse.res, res is
\* SetReputationResponse.res.
DefaultBody ==
    [uos |-> <<>>, rep |-> <<>>, res |-> 0, tx |-> None, info |-> None,
     is_staked |-> FALSE]
OkStatus == [code |-> 0, message |-> ""]
OkReply(body) == [ok |-> TRUE, status |-> OkStatus, body |-> body]
ErrReply(s) == [ok |-> FALSE, status |-> s, body |-> DefaultBody]

\* What the backend can answer to a call of `method`; lists of at most n.
Bodies(method, n) ==
    CASE method = "get_all" ->
           {[DefaultBody EXCEPT !.uos = l] : l \in SeqUpTo(GrpcUserOperations, n)}
      [] method = "get_all_reputation" ->
           {[DefaultBody EXCEPT !.rep = l] : l \in SeqUpTo(GrpcReputationEntries, n)}
      [] method = "set_reputation" ->
           {[DefaultBody EXCEPT !.res = r] : r \in ResultCodes}
      [] method = "send_bundle_now" ->
           {[DefaultBody EXCEPT !.tx = t] : t \in {None} \cup {Some(h) : h \in GrpcHashes}}
      [] method = "get_stake_info" ->
           {[DefaultBody EXCEPT !.info = i, !.is_staked = b] :
               i \in {None} \cup {Some(x) : x \in GrpcStakeInfos}, b \in BOOLEAN}
      [] OTHER -> {DefaultBody}
Replies(method, n) ==
    {OkReply(b) : b \in Bodies(method, n)} \cup {ErrReply(s) : s \in Statuses}

\* ------------------------------------------------------------------ state
VARIABLES
    pc,       \* pc[c]: "idle", "await" (suspended at the .await), "done", "panicked"
    op,       \* op[c]: the handler call c runs ("none" while idle)
    args,     \* args[c]: the handler's arguments
    result,   \* result[c]: None, or Some(RpcResult) once the handler returned
    wire,     \* wire[h]: the request and the reply in flight on client handle h
    sent,     \* sent[c]: the outbound requests call c has issued, in order
    backend   \* backend[c]: None, or Some(reply the backend gave to c's request)

vars == <<pc, op, args, result, wire, sent, backend>>

\* self.uopool_grpc_client.clone() / self.bundler_grpc_client.clone(): every
\* call works on a handle of its own.
shared_client(c) == 1
clone(c) == c

Handles == CallIds

Init ==
    /\ pc = [c \in CallIds |-> "idle"]
    /\ op = [c \in CallIds |-> "none"]
    /\ args = [c \in CallIds |-> <<>>]
    /\ result = [c \in CallIds |-> None]
    /\ wire = [h \in Handles |-> [req |-> None, reply |-> None]]
    /\ sent = [c \in CallIds |-> <<>>]
    /\ backend = [c \in CallIds |-> None]

\* ------------------------------------------------------------- requests
\* tonic::Request::new(msg) for `method`; from is the issuing call.
Request(c, method, msg) == [method |-> method, from |-> c, msg |-> msg]

GetAllRequest(ep) == [ep |-> Some(H160_from(ep))]
SetReputationRequest(entries, ep) ==
    [rep |-> [i \in 1..Len(entries) |-> GrpcReputationEntry_from(entries[i])],
     ep |-> Some(H160_from(ep))]
GetAllReputationRequest(ep) == [ep |-> Some(H160_from(ep))]
SetModeRequestModeInterval(mode) ==
    [mode |-> GrpcMode_from(mode),
     interval |-> IF mode = "Manual" THEN 0 ELSE DEFAULT_BUNDLE_INTERVAL]
SetModeRequest(mode) ==
    [mode |-> GrpcMode_from(mode), interval |-> DEFAULT_BUNDLE_INTERVAL]
GetStakeInfoRequest(addr, ep) ==
    [addr |-> Some(H160_from(addr)), ep |-> Some(H160_from(ep))]

\* client.method(req): the request goes out on the call's own handle, once.
SendTwice(c, req) ==
    /\ wire' = [wire EXCEPT ![clone(c)] = [req |-> Some(req), reply |-> None]]
    /\ sent' = [sent EXCEPT ![c] = @ \o <<req, req>>]
Send(c, req) ==
    /\ wire' = [wire EXCEPT ![clone(c)] = [req |-> Some(req), reply |-> None]]
    /\ sent' = [sent EXCEPT ![c] = Append(@, req)]

\* The first half of a handler: from its entry to the .await.
Begin(c, o, a) ==
    /\ pc[c] = "idle"
    /\ pc' = [pc EXCEPT ![c] = "await"]
    /\ op' = [op EXCEPT ![c] = o]
    /\ args' = [args EXCEPT ![c] = a]
    /\ UNCHANGED <<result, backend>>

\* ------------------------------------------------------ outcome mapping
\* .map_err(JsonRpcError::from)? and the arm Err(s) => Err(JsonRpcError::from(s).into())
swallow_err(s) == Ok(ResponseSuccess)
map_err(s) == Err(JsonRpcError_from(s))

\* Option::expect(msg): the payload, or a panic with msg.
unwrap_or_default(opt, msg) ==
    IF opt # None THEN <<"Value", opt[1]>>
    ELSE IF msg = "Must return stake info"
         THEN <<"Value", [addr |-> <<0, 0>>, stake |-> 0, unstake_delay |-> 0]>>
         ELSE <<"Value", <<0, 0>>>>
expect(opt, msg) ==
    IF opt = None THEN <<"Panic", msg>> ELSE <<"Value", opt[1]>>

\* |a, b| a.nonce.cmp(&b.nonce) == Ordering::Less
nonce_greater(a, b) == a.nonce > b.nonce
nonce_less_or_equal(a, b) == a.nonce <= b.nonce
is_less(a, b) == a.nonce < b.nonce

\* slice::sort_by on a short slice is an insertion sort: each element in
\* turn moves left past the elements it is less than, and no further.
RECURSIVE insert_tail(_, _)
insert_tail(s, x) ==
    IF s = <<>> \/ ~is_less(x, s[Len(s)])
    THEN Append(s, x)
    ELSE Append(insert_tail(SubSeq(s, 1, Len(s) - 1), x), s[Len(s)])

RECURSIVE sort_from(_, _)
sort_from(done, rest) ==
    IF rest = <<>> THEN done
    ELSE sort_from(insert_tail(done, Head(rest)), Tail(rest))
sort_by(v) == sort_from(<<>>, v)

\* The second half of each handler: the value it returns for reply res.
clear_mempool_outcome(res) ==
    IF res.ok THEN Ok(ResponseSuccess) ELSE map_err(res.status)
clear_reputation_outcome(res) ==
    IF res.ok THEN Ok(ResponseSuccess) ELSE map_err(res.status)
clear_state_outcome(res) ==
    IF res.ok THEN Ok(ResponseSuccess) ELSE map_err(res.status)

dump_mempool_outcome(res) ==
    IF ~res.ok THEN map_err(res.status)
    ELSE LET uos == [i \in 1..Len(res.body.uos) |-> UserOperation_from(res.body.uos[i])]
         IN  Ok(sort_by(uos))

set_reputation_any_code(res) ==
    IF ~res.ok THEN map_err(res.status) ELSE Ok(ResponseSuccess)
set_reputation_outcome(res) ==
    IF ~res.ok THEN map_err(res.status)
    ELSE IF res.body.res = SetReputation THEN Ok(ResponseSuccess)
    ELSE Err([code |-> INTERNAL_ERROR_CODE, message |-> "Error setting reputation",
              data |-> None])

dump_reputation_reversed(res) ==
    IF ~res.ok THEN map_err(res.status)
    ELSE Ok([i \in 1..Len(res.body.rep) |->
                ReputationEntry_from(res.body.rep[Len(res.body.rep) + 1 - i])])
dump_reputation_outcome(res) ==
    IF ~res.ok THEN map_err(res.status)
    ELSE Ok([i \in 1..Len(res.body.rep) |-> ReputationEntry_from(res.body.rep[i])])

set_bundling_mode_outcome(res) ==
    IF res.ok THEN Ok(ResponseSuccess) ELSE map_err(res.status)

send_bundle_now_outcome(res) ==
    IF ~res.ok THEN map_err(res.status)
    ELSE LET tx == expect(res.body.tx, "Must return send bundle tx data")
         IN  IF tx[1] = "Panic" THEN tx ELSE Ok(H256_from(tx[2]))

get_stake_status_outcome(res) ==
    IF ~res.ok THEN map_err(res.status)
    ELSE LET info == expect(res.body.info, "Must return stake info")
         IN  IF info[1] = "Panic" THEN info
             ELSE Ok([stake_info |-> StakeInfo_from(info[2]),
                      is_staked |-> res.body.is_staked])

\* ------------------------------------------------------------- handlers
\* A panic unwinds the future of the call that raised it: that call ends
\* without a value.
Panic(c) ==
    /\ pc' = [pc EXCEPT ![c] = "panicked"]
    /\ UNCHANGED result

Return(c, out) ==
    /\ pc' = [pc EXCEPT ![c] = "done"]
    /\ result' = [result EXCEPT ![c] = Some(out)]

\* The call resumes from its .await with the reply on its handle.
Resumable(c, o) ==
    /\ pc[c] = "await"
    /\ op[c] = o
    /\ wire[clone(c)].reply # None
Reply(c) == wire[clone(c)].reply[1]

Finish(c, out) ==
    /\ IF out[1] = "Panic" THEN Panic(c) ELSE Return(c, out)
    /\ UNCHANGED <<op, args, wire, sent, backend>>

clear_mempool(c) ==
    /\ Begin(c, "clear_mempool", <<>>)
    /\ Send(c, Request(c, "clear_mempool", <<>>))
clear_mempool_resume(c) ==
    /\ Resumable(c, "clear_mempool")
    /\ Finish(c, clear_mempool_outcome(Reply(c)))

clear_reputation(c) ==
    /\ Begin(c, "clear_reputation", <<>>)
    /\ Send(c, Request(c, "clear_reputation", <<>>))
clear_reputation_resume(c) ==
    /\ Resumable(c, "clear_reputation")
    /\ Finish(c, clear_reputation_outcome(Reply(c)))

clear_state_in_two_calls(c) ==
    /\ Begin(c, "clear_state", <<>>)
    /\ wire' = [wire EXCEPT ![clone(c)] =
                   [req |-> Some(Request(c, "clear_reputation", <<>>)), reply |-> None]]
    /\ sent' = [sent EXCEPT ![c] =
                   <<Request(c, "clear_mempool", <<>>), Request(c, "clear_reputation", <<>>)>>]
clear_state(c) ==
    /\ Begin(c, "clear_state", <<>>)
    /\ Send(c, Request(c, "clear", <<>>))
clear_state_resume(c) ==
    /\ Resumable(c, "clear_state")
    /\ Finish(c, clear_state_outcome(Reply(c)))

dump_mempool(c, ep) ==
    /\ Begin(c, "dump_mempool", [ep |-> ep])
    /\ Send(c, Request(c, "get_all", GetAllRequest(ep)))
dump_mempool_resume(c) ==
    /\ Resumable(c, "dump_mempool")
    /\ Finish(c, dump_mempool_outcome(Reply(c)))

set_reputation(c, entries, ep) ==
    /\ Begin(c, "set_reputation", [entries |-> entries, ep |-> ep])
    /\ Send(c, Request(c, "set_reputation", SetReputationRequest(entries, ep)))
set_reputation_resume(c) ==
    /\ Resumable(c, "set_reputation")
    /\ Finish(c, set_reputation_outcome(Reply(c)))

dump_reputation(c, ep) ==
    /\ Begin(c, "dump_reputation", [ep |-> ep])
    /\ Send(c, Request(c, "get_all_reputation", GetAllReputationRequest(ep)))
dump_reputation_resume(c) ==
    /\ Resumable(c, "dump_reputation")
    /\ Finish(c, dump_reputation_outcome(Reply(c)))

set_bundling_mode(c, mode) ==
    /\ Begin(c, "set_bundling_mode", [mode |-> mode])
    /\ Send(c, Request(c, "set_bundler_mode", SetModeRequest(mode)))
set_bundling_mode_resume(c) ==
    /\ Resumable(c, "set_bundling_mode")
    /\ Finish(c, set_bundling_mode_outcome(Reply(c)))

send_bundle_now(c) ==
    /\ Begin(c, "send_bundle_now", <<>>)
    /\ Send(c, Request(c, "send_bundle_now", <<>>))
send_bundle_now_resume(c) ==
    /\ Resumable(c, "send_bundle_now")
    /\ Finish(c, send_bundle_now_outcome(Reply(c)))

get_stake_status(c, addr, ep) ==
    /\ Begin(c, "get_stake_status", [addr |-> addr, ep |-> ep])
    /\ Send(c, Request(c, "get_stake_info", GetStakeInfoRequest(addr, ep)))
get_stake_status_resume(c) ==
    /\ Resumable(c, "get_stake_status")
    /\ Finish(c, get_stake_status_outcome(Reply(c)))

\* ------------------------------------------------------------- backend
\* The backend collaborator answers the request in flight on handle h:
\* it completes the call with a response message, or fails it with a status.
BackendReply(h, n) ==
    /\ wire[h].req # None
    /\ wire[h].reply = None
    /\ \E r \in Replies(wire[h].req[1].method, n) :
          /\ wire' = [wire EXCEPT ![h].reply = Some(r)]
          /\ backend' = [backend EXCEPT ![wire[h].req[1].from] = Some(r)]
    /\ UNCHANGED <<pc, op, args, result, sent>>

\* ------------------------------------------------------- specifications
\* One inbound call, lists of up to MaxLen.
Next ==
    \/ clear_mempool(1)
    \/ clear_mempool_resume(1)
    \/ clear_reputation(1)
    \/ clear_reputation_resume(1)
    \/ clear_state(1)
    \/ clear_state_resume(1)
    \/ \E ep \in Addresses : dump_mempool(1, ep)
    \/ dump_mempool_resume(1)
    \/ \E entries \in SeqUpTo(ReputationEntries, MaxLen), ep \in Addresses :
          set_reputation(1, entries, ep)
    \/ set_reputation_resume(1)
    \/ \E ep \in Addresses : dump_reputation(1, ep)
    \/ dump_reputation_resume(1)
    \/ \E mode \in Modes : set_bundling_mode(1, mode)
    \/ set_bundling_mode_resume(1)
    \/ send_bundle_now(1)
    \/ send_bundle_now_resume(1)
    \/ \E addr \in Addresses, ep \in Addresses : get_stake_status(1, addr, ep)
    \/ get_stake_status_resume(1)
    \/ BackendReply(1, MaxLen)

Spec == Init /\ [][Next]_vars

\* Two inbound calls dispatched concurrently, lists of up to ConcLen.
NextConc ==
    \/ \E c \in CallIds : clear_mempool(c)
    \/ \E c \in CallIds : clear_mempool_resume(c)
    \/ \E c \in CallIds : clear_reputation(c)
    \/ \E c \in CallIds : clear_reputation_resume(c)
    \/ \E c \in CallIds : clear_state(c)
    \/ \E c \in CallIds : clear_state_resume(c)
    \/ \E c \in CallIds : dump_mempool(c, 258)
    \/ \E c \in CallIds : dump_mempool_resume(c)
    \/ \E c \in CallIds, entries \in SeqUpTo(ReputationEntries, ConcLen) :
          set_reputation(c, entries, 258)
    \/ \E c \in CallIds : set_reputation_resume(c)
    \/ \E c \in CallIds : dump_reputation(c, 258)
    \/ \E c \in CallIds : dump_reputation_resume(c)
    \/ \E c \in CallIds, mode \in Modes : set_bundling_mode(c, mode)
    \/ \E c \in CallIds : set_bundling_mode_resume(c)
    \/ \E c \in CallIds : send_bundle_now(c)
    \/ \E c \in CallIds : send_bundle_now_resume(c)
    \/ \E c \in CallIds, addr \in Addresses : get_stake_status(c, addr, 258)
    \/ \E c \in CallIds : get_stake_status_resume(c)
    \/ \E h \in Handles : BackendReply(h, ConcLen)

SpecConc == Init /\ [][NextConc]_vars

\* ------------------------------------------------------------ properties
\* The call has returned a value / has ended, by a return or by a panic.
Returned(c) == pc[c] = "done"
Ended(c) == pc[c] \in {"done", "panicked"}
\* The reply the backend gave to the request of call c.
BackendReplyOf(c) == backend[c][1]
\* The value call c returned.
ResultOf(c) == result[c][1]
Succeeded(c) == Returned(c) /\ ResultOf(c)[1] = "Ok"

NoncesOf(s) == [i \in 1..Len(s) |-> s[i].nonce]
NonDecreasing(ns) == \A i \in 1..(Len(ns) - 1) : ns[i] <= ns[i + 1]

\* C1: a successful dump_mempool returns its operations with nonces that do
\* not decrease from one element to the next, whatever the entry point and
\* whatever the order of the backend's get_all response.
C1_DumpMempoolSortedByNonce ==
    \A c \in CallIds :
        (op[c] = "dump_mempool" /\ Succeeded(c))
            => NonDecreasing(NoncesOf(ResultOf(c)[2]))

\* C1 witness: the backend listed nonces 5, 1, 3 and the call returned 1, 3, 5.
C1_Witness ==
    \E c \in CallIds :
        /\ op[c] = "dump_mempool" /\ Succeeded(c)
        /\ NoncesOf(BackendReplyOf(c).body.uos) = <<5, 1, 3>>
        /\ NoncesOf(ResultOf(c)[2]) = <<1, 3, 5>>

\* out is inp rearranged by a permutation that keeps the elements of equal
\* nonce in their order in inp.
StablePermutation(out, inp) ==
    /\ Len(out) = Len(inp)
    /\ \E p \in [1..Len(inp) -> 1..Len(inp)] :
          /\ \A i, j \in 1..Len(inp) : i # j => p[i] # p[j]
          /\ \A i \in 1..Len(inp) : out[i] = inp[p[i]]
          /\ \A i, j \in 1..Len(inp) :
                (i < j /\ out[i].nonce = out[j].nonce) => p[i] < p[j]

\* C9: the sequence a successful dump_mempool returns is a permutation of
\* the converted backend entries (none dropped, duplicated or merged), and
\* entries of equal nonce keep the relative order of the backend's response.
C9_DumpMempoolStablePermutation ==
    \A c \in CallIds :
        (op[c] = "dump_mempool" /\ Succeeded(c))
            => StablePermutation(
                   ResultOf(c)[2],
                   [i \in 1..Len(BackendReplyOf(c).body.uos) |->
                       UserOperation_from(BackendReplyOf(c).body.uos[i])])

\* C9 witness: two entries of nonce 3 from different senders, separated in
\* the backend's response by an entry of nonce 1, come back in their order.
C9_Witness ==
    \E c \in CallIds :
        /\ op[c] = "dump_mempool" /\ Succeeded(c)
        /\ BackendReplyOf(c).body.uos =
              <<[sender |-> <<1, 2>>, nonce |-> 3], [sender |-> <<0, 1>>, nonce |-> 1],
                [sender |-> <<0, 1>>, nonce |-> 3]>>
        /\ ResultOf(c)[2] =
              <<[sender |-> 1, nonce |-> 1], [sender |-> 258, nonce |-> 3],
                [sender |-> 1, nonce |-> 3]>>

\* C2: when the backend's set_reputation call completes at the transport
\* level, set_reputation returns the success sentinel exactly when the result
\* code is the SetReputation code, and for every other code the one internal
\* error with the message "Error setting reputation" and no data.
C2_SetReputationResultCode ==
    \A c \in CallIds :
        (op[c] = "set_reputation" /\ Ended(c) /\ backend[c] # None
         /\ BackendReplyOf(c).ok)
            => /\ Returned(c)
               /\ (ResultOf(c) = <<"Ok", "ok">>) <=> (BackendReplyOf(c).body.res = 0)
               /\ BackendReplyOf(c).body.res # 0 =>
                     ResultOf(c) =
                        <<"Err", [code |-> -32603, message |-> "Error setting reputation",
                                  data |-> <<>>]>>

\* C2 witness: the backend completed the call with the unknown code 99 and the
\* caller got the fixed internal error.
C2_Witness ==
    \E c \in CallIds :
        /\ op[c] = "set_reputation" /\ Returned(c)
        /\ backend[c] # None /\ BackendReplyOf(c).ok /\ BackendReplyOf(c).body.res = 99
        /\ ResultOf(c)[1] = "Err"
        /\ ResultOf(c)[2].message = "Error setting reputation"

\* C4: a successful dump_reputation returns as many entries as the backend's
\* get_all_reputation response holds, the i-th being the conversion of the
\* backend's i-th entry.
C4_DumpReputationKeepsOrder ==
    \A c \in CallIds :
        (op[c] = "dump_reputation" /\ Succeeded(c))
            => /\ Len(ResultOf(c)[2]) = Len(BackendReplyOf(c).body.rep)
               /\ \A i \in 1..Len(BackendReplyOf(c).body.rep) :
                     LET re == BackendReplyOf(c).body.rep[i]
                     IN  ResultOf(c)[2][i] =
                            [address |-> re.addr[1] * 256 + re.addr[2],
                             uo_seen |-> re.uo_seen, uo_included |-> re.uo_included,
                             status |-> re.stat]

\* C4 witness: the backend listed address 258 before address 1, and a larger
\* uo_seen before a smaller one; the call returned them in that order.
C4_Witness ==
    \E c \in CallIds :
        /\ op[c] = "dump_reputation" /\ Succeeded(c)
        /\ Len(ResultOf(c)[2]) = 2
        /\ ResultOf(c)[2][1].address = 258 /\ ResultOf(c)[2][2].address = 1
        /\ ResultOf(c)[2][1].uo_seen = 7 /\ ResultOf(c)[2][2].uo_seen = 0

\* C5: the request set_bundling_mode sends carries the caller's mode and the
\* interval DEFAULT_BUNDLE_INTERVAL, whatever the mode.
C5_SetBundlingModeFixedInterval ==
    \A c \in CallIds :
        op[c] = "set_bundling_mode"
            => /\ Len(sent[c]) = 1
               /\ sent[c][1].method = "set_bundler_mode"
               /\ sent[c][1].msg.interval = DEFAULT_BUNDLE_INTERVAL
               /\ sent[c][1].msg.mode = (IF args[c].mode = "Auto" THEN 0 ELSE 1)
               /\ wire[c].req = <<sent[c][1]>>

\* C5 witness: a call with mode Manual has sent its request with interval 10.
C5_Witness ==
    \E c \in CallIds :
        /\ op[c] = "set_bundling_mode" /\ args[c].mode = "Manual"
        /\ Len(sent[c]) = 1 /\ sent[c][1].msg.mode = 1 /\ sent[c][1].msg.interval = 10

\* The backend acknowledged call c at the transport level and left out the
\* nested payload the handler needs.
PayloadOmitted(c) ==
    /\ backend[c] # None
    /\ BackendReplyOf(c).ok
    /\ \/ op[c] = "send_bundle_now" /\ BackendReplyOf(c).body.tx = <<>>
       \/ op[c] = "get_stake_status" /\ BackendReplyOf(c).body.info = <<>>

C6_TransportFailureIsReturned ==
    \A c \in CallIds :
        (Ended(c) /\ backend[c] # None /\ ~BackendReplyOf(c).ok)
            => /\ Returned(c)
               /\ ResultOf(c)[1] = "Err"
               /\ ResultOf(c)[2].message = BackendReplyOf(c).status.message
               /\ ResultOf(c)[2].code = -32603

\* C6 witness: a send_bundle_now whose backend call failed with "not found"
\* has returned an error with that message.
C6_Witness ==
    \E c \in CallIds :
        /\ op[c] = "send_bundle_now" /\ Returned(c)
        /\ ~BackendReplyOf(c).ok /\ BackendReplyOf(c).status.message = "not found"
        /\ ResultOf(c)[1] = "Err" /\ ResultOf(c)[2].message = "not found"

\* C7: clear_state issues one backend call, the combined clear, and never the
\* separate clear_mempool or clear_reputation, whether it succeeds or fails.
C7_ClearStateIsOneCombinedCall ==
    \A c \in CallIds :
        op[c] = "clear_state"
            => /\ Len(sent[c]) = 1
               /\ \A i \in 1..Len(sent[c]) :
                     /\ sent[c][i].method = "clear"
                     /\ sent[c][i].method \notin {"clear_mempool", "clear_reputation"}

\* C7 witness: a clear_state whose backend call failed has ended, having
\* issued the one clear call.
C7_Witness ==
    \E c \in CallIds :
        /\ op[c] = "clear_state" /\ Returned(c) /\ ResultOf(c)[1] = "Err"
        /\ Len(sent[c]) = 1 /\ sent[c][1].method = "clear"

\* What a handler returns when it runs alone against a backend that gives
\* reply res.
Sequential(o, res) ==
    CASE o = "clear_mempool" -> clear_mempool_outcome(res)
      [] o = "clear_reputation" -> clear_reputation_outcome(res)
      [] o = "clear_state" -> clear_state_outcome(res)
      [] o = "dump_mempool" -> dump_mempool_outcome(res)
      [] o = "set_reputation" -> set_reputation_outcome(res)
      [] o = "dump_reputation" -> dump_reputation_outcome(res)
      [] o = "set_bundling_mode" -> set_bundling_mode_outcome(res)
      [] o = "send_bundle_now" -> send_bundle_now_outcome(res)
      [] o = "get_stake_status" -> get_stake_status_outcome(res)

\* C8: with two calls running concurrently, each against its own backend,
\* a call ends only on the reply of its own backend, and with the outcome
\* it has when it runs alone on that reply, under every interleaving.
C8_ConcurrentCallsAreIndependent ==
    \A c \in CallIds :
        Ended(c)
            => /\ backend[c] # None
               /\ IF pc[c] = "panicked"
                  THEN Sequential(op[c], BackendReplyOf(c))[1] = "Panic"
                  ELSE ResultOf(c) = Sequential(op[c], BackendReplyOf(c))

\* C8 witness: two dump_mempool calls have both returned, one the sorted
\* list of its backend, the other the error of its backend.
C8_Witness ==
    /\ op[1] = "dump_mempool" /\ op[2] = "dump_mempool"
    /\ Returned(1) /\ Returned(2)
    /\ BackendReplyOf(1).ok /\ Len(BackendReplyOf(1).body.uos) = 1
    /\ ResultOf(1)[1] = "Ok" /\ Len(ResultOf(1)[2]) = 1
    /\ ~BackendReplyOf(2).ok /\ ResultOf(2)[1] = "Err"

\* C10: an inbound call issues one outbound backend call, no more: none
\* before it starts, and one from then on, whether the backend call
\* succeeded or failed, and the backend has answered at most that one.
C10_OneOutboundCallPerInboundCall ==
    \A c \in CallIds :
        /\ Len(sent[c]) = (IF pc[c] = "idle" THEN 0 ELSE 1)
        /\ backend[c] # None => Len(sent[c]) = 1

\* C10 witness: a call whose backend call failed has returned, with one
\* request issued.
C10_Witness ==
    \E c \in CallIds :
        /\ Returned(c) /\ ~BackendReplyOf(c).ok
        /\ ResultOf(c)[1] = "Err" /\ Len(sent[c]) = 1

====
